---- MODULE Spec2Model ----
(***************************************************************************)
(* A model of generate-context (src/src/index.ts): the resolver            *)
(* (expandFiles, findFilesInDirectory), the binary classifier              *)
(* (isBinaryFile, filterTextFiles), the emitter (generateContext) and the  *)
(* command's action handler that composes them.                            *)
(*                                                                         *)
(* Two specifications share the module:                                    *)
(*   Spec          one run of the command over a small filesystem;         *)
(*   SpecClassify  the classifier applied to byte buffers.                 *)
(***************************************************************************)
EXTENDS Integers, Sequences, FiniteSets, TLC

VARIABLES
    fileState,      \* filesystem: per file, "text" | "binary" | "unreadable"
    badDirs,        \* filesystem: the directories whose readdir fails
    globErr,        \* environment: the pattern glob raises on, or "none"
    patterns,       \* the positional arguments `paths`
    includeBinary,  \* options.includeBinary
    pc,             \* position in the action handler
    i,              \* expandFiles: index of the next pattern of the for loop
    files,          \* expandFiles: the accumulating `files` array
    trace,          \* per expanded pattern: what it contributed, what was called
    allFiles,       \* action: expandFiles' result
    textFiles,      \* action: the list handed to generateContext
    stdout,         \* lines written by console.log
    stderr,         \* messages written by console.error
    exitCode,       \* the process's exit status
    buffer,         \* classifier: the bytes read, run-length encoded
    verdict         \* classifier: "none" | "text" | "binary"

vars == <<fileState, badDirs, globErr, patterns, includeBinary, pc, i, files,
          trace, allFiles, textFiles, stdout, stderr, exitCode, buffer, verdict>>

fsVars  == <<fileState, badDirs, globErr, patterns, includeBinary>>
clsVars == <<buffer, verdict>>

Min(a, b) == IF a < b THEN a ELSE b
Max(a, b) == IF a > b THEN a ELSE b

(***************************************************************************)
(* Bounds of the model.                                                    *)
(***************************************************************************)
MaxSpecs == 2       \* longest list of specifiers
MaxRuns  == 3       \* longest run-length encoding of a buffer

(***************************************************************************)
(* The filesystem the run sees, relative to the working directory "".      *)
(*   a.txt  [x].txt  sub/ { b.txt  d/ { c.txt }  e.txt  l -> (dangling) }  *)
(***************************************************************************)
Entries(d) ==
    CASE d = ""      -> <<"a.txt", "[x].txt", "sub">>
      [] d = "sub"   -> <<"b.txt", "d", "e.txt", "l">>
      [] d = "sub/d" -> <<"c.txt">>
      [] OTHER       -> <<>>

Kind(p) ==
    CASE p \in {"a.txt", "[x].txt", "sub/b.txt", "sub/d/c.txt", "sub/e.txt"} -> "file"
      [] p \in {"sub", "sub/d"} -> "dir"
      [] p = "sub/l"            -> "symlink"
      [] OTHER                  -> "none"

AllPaths == {"a.txt", "[x].txt", "sub", "sub/b.txt", "sub/d", "sub/d/c.txt",
             "sub/e.txt", "sub/l"}
Dirs     == {"sub", "sub/d"}
VaryingFiles == {"a.txt", "sub/b.txt"}

Specifiers == {"a.txt", "sub", "sub/b.txt", "sub/*", "**/*.txt", "[x].txt", "missing.txt"}

FileState(p) == IF p \in DOMAIN fileState THEN fileState[p] ELSE "text"

\* path.join(dirPath, entry.name) on normalised operands
Join(dirPath, name) == IF dirPath = "" THEN name ELSE dirPath \o "/" \o name

\* readFile(file) rejects: not a regular file (ENOENT, EISDIR) or no permission
ReadFails(p) == Kind(p) # "file" \/ FileState(p) = "unreadable"

\* readdir(dirPath) rejects
ReaddirFails(d) == d \in badDirs

(***************************************************************************)
(* fileExists and isDirectory: both swallow the rejection and answer.      *)
(***************************************************************************)
\* access(filePath, F_OK) resolves: the path leads to something
AccessOk(p) == Kind(p) \in {"file", "dir"}

\* mutant: the answer does not depend on the filesystem
fileExistsAlways(filePath) == TRUE

fileExists(filePath) == AccessOk(filePath)

isDirectory(path) == Kind(path) = "dir"

(***************************************************************************)
(* findFilesInDirectory: files in readdir order, subdirectories in place;  *)
(* errs are the console.error reports of the directories that failed.      *)
(***************************************************************************)
NoFiles == [files |-> <<>>, errs |-> <<>>]

DirError(dirPath) == <<"Error reading directory", dirPath>>

\* mutant: the subdirectories are not descended into
findFilesShallow(dirPath, recursive) ==
    IF ReaddirFails(dirPath)
    THEN [files |-> <<>>, errs |-> <<DirError(dirPath)>>]
    ELSE LET entries == Entries(dirPath)
             full(k) == Join(dirPath, entries[k])
             F[k \in 0..Len(entries)] ==
                 IF k = 0 THEN <<>>
                 ELSE IF Kind(full(k)) = "file" THEN Append(F[k-1], full(k))
                 ELSE F[k-1]
         IN [files |-> F[Len(entries)], errs |-> <<>>]

RECURSIVE FilesAbort(_)
\* mutant helper: a failing readdir anywhere below dirPath is not caught locally
FilesAbort(dirPath) ==
    IF ReaddirFails(dirPath) THEN [files |-> <<>>, failed |-> <<dirPath>>]
    ELSE LET entries == Entries(dirPath)
             full(k) == Join(dirPath, entries[k])
             F[k \in 0..Len(entries)] ==
                 IF k = 0 THEN [files |-> <<>>, failed |-> <<>>]
                 ELSE IF F[k-1].failed # <<>> THEN F[k-1]
                 ELSE IF Kind(full(k)) = "dir"
                      THEN LET sub == FilesAbort(full(k))
                           IN IF sub.failed # <<>>
                              THEN [files |-> <<>>, failed |-> sub.failed]
                              ELSE [files |-> F[k-1].files \o sub.files, failed |-> <<>>]
                 ELSE IF Kind(full(k)) = "file"
                      THEN [files |-> Append(F[k-1].files, full(k)), failed |-> <<>>]
                 ELSE F[k-1]
         IN F[Len(entries)]

\* mutant: the try/catch sits around the whole traversal, not around each directory
findFilesAbort(dirPath, recursive) ==
    LET r == FilesAbort(dirPath)
    IN [files |-> r.files,
        errs  |-> IF r.failed = <<>> THEN <<>> ELSE <<DirError(r.failed[1])>>]

RECURSIVE findFilesInDirectory(_, _), walkEntries(_, _, _, _)

\* the for loop over entries, from entry k on
walkEntries(dirPath, entries, k, recursive) ==
    IF k > Len(entries) THEN NoFiles
    ELSE LET fullPath == Join(dirPath, entries[k])
             here == IF Kind(fullPath) = "dir" /\ recursive
                     THEN findFilesInDirectory(fullPath, recursive)
                     ELSE IF Kind(fullPath) = "file"
                          THEN [files |-> <<fullPath>>, errs |-> <<>>]
                          ELSE NoFiles
             rest == walkEntries(dirPath, entries, k + 1, recursive)
         IN [files |-> here.files \o rest.files, errs |-> here.errs \o rest.errs]

findFilesInDirectory(dirPath, recursive) ==
    IF ReaddirFails(dirPath)
    THEN [files |-> <<>>, errs |-> <<DirError(dirPath)>>]
    ELSE walkEntries(dirPath, Entries(dirPath), 1, recursive)

(***************************************************************************)
(* glob(pattern, {cwd}): the entries of the tree the pattern matches, in   *)
(* walk order.  It lists directories and dangling links as well as files,  *)
(* and silently skips a directory it cannot read.                          *)
(***************************************************************************)
ParentOf(p) ==
    CASE p \in {"sub/b.txt", "sub/d", "sub/e.txt", "sub/l"} -> "sub"
      [] p = "sub/d/c.txt" -> "sub/d"
      [] OTHER             -> ""

Matches(pattern, p) ==
    CASE pattern = "sub/*"    -> ParentOf(p) = "sub"
      [] pattern = "**/*.txt" -> p \in {"a.txt", "[x].txt", "sub/b.txt", "sub/d/c.txt",
                                       "sub/e.txt"}
      [] pattern = "[x].txt"  -> p = "x.txt"
      [] OTHER                -> p = pattern

RECURSIVE WalkAll(_), WalkAllFrom(_, _, _)
WalkAllFrom(d, entries, k) ==
    IF k > Len(entries) THEN <<>>
    ELSE LET fullPath == Join(d, entries[k])
         IN <<fullPath>>
            \o (IF Kind(fullPath) = "dir" THEN WalkAll(fullPath) ELSE <<>>)
            \o WalkAllFrom(d, entries, k + 1)
WalkAll(d) == IF ReaddirFails(d) THEN <<>> ELSE WalkAllFrom(d, Entries(d), 1)

Glob(pattern) == SelectSeq(WalkAll(""), LAMBDA p : Matches(pattern, p))

GlobRaises(pattern) == pattern = globErr

(***************************************************************************)
(* expandFiles: the body of the for loop, for one pattern.                 *)
(***************************************************************************)
expandPattern(pattern, recursive) ==
    IF isDirectory(pattern)
    THEN LET dirFiles == findFilesInDirectory(pattern, recursive)
         IN [pattern |-> pattern, contrib |-> dirFiles.files, errs |-> dirFiles.errs,
             calls |-> <<"isDirectory", "findFilesInDirectory">>]
    ELSE IF GlobRaises(pattern)
    THEN \* catch (error)
         [pattern |-> pattern,
          contrib |-> IF fileExists(pattern) THEN <<pattern>> ELSE <<>>,
          errs |-> <<>>,
          calls |-> <<"isDirectory", "glob", "catch", "fileExists">>]
    ELSE LET matches == Glob(pattern)
         IN IF Len(matches) > 0
            THEN [pattern |-> pattern, contrib |-> matches, errs |-> <<>>,
                  calls |-> <<"isDirectory", "glob">>]
            ELSE [pattern |-> pattern,
                  contrib |-> IF fileExists(pattern) THEN <<pattern>> ELSE <<>>,
                  errs |-> <<>>,
                  calls |-> <<"isDirectory", "glob", "fileExists">>]

\* mutant: the array is returned as accumulated
DedupNone(s) == s

RECURSIVE Dedup(_)
\* [...new Set(files)]: first occurrences, in order
Dedup(s) ==
    IF s = <<>> THEN <<>>
    ELSE LET front == Dedup(SubSeq(s, 1, Len(s) - 1))
             last  == s[Len(s)]
         IN IF \E k \in DOMAIN front : front[k] = last THEN front ELSE Append(front, last)

(***************************************************************************)
(* isBinaryFile on the bytes read.  A buffer is run-length encoded: a      *)
(* sequence of runs [byte, n], n >= 1 copies of byte; the scans of the     *)
(* code run over byte indices 0 .. limit-1 and are computed here per run.  *)
(***************************************************************************)
PrintableScanLimit == 1024

\* mutant: the null scan stops where the printable scan does
NullScanLimitShort == PrintableScanLimit

NullScanLimit == 8192

Bytes      == {0, 9, 10, 13, 31, 32, 126, 127}
RunLengths == {1, 4, 1024, 7167, 7168}
Runs       == [byte : Bytes, n : RunLengths]

RECURSIVE BufLength(_)
\* buffer.length
BufLength(buf) == IF buf = <<>> THEN 0 ELSE buf[1].n + BufLength(Tail(buf))

\* the condition of the if in the second loop
isPrintable(byte) == (byte >= 32 /\ byte <= 126) \/ byte = 9 \/ byte = 10 \/ byte = 13

RECURSIVE HasNull(_, _)
\* first loop: some index < limit holds byte 0
HasNull(buf, limit) ==
    IF buf = <<>> \/ limit <= 0 THEN FALSE
    ELSE IF buf[1].byte = 0 THEN TRUE
    ELSE HasNull(Tail(buf), limit - buf[1].n)

RECURSIVE CountPrintable(_, _)
\* second loop: printableCount over the indices < limit
CountPrintable(buf, limit) ==
    IF buf = <<>> \/ limit <= 0 THEN 0
    ELSE (IF isPrintable(buf[1].byte) THEN Min(buf[1].n, limit) ELSE 0)
         + CountPrintable(Tail(buf), limit - buf[1].n)

\* mutant: the boundary ratio counts as binary
RatioBelowOrAt(printableCount, checkLength) == printableCount * 10 <= 8 * checkLength

\* printableCount / checkLength < 0.8.  In doubles the quotient of integers up to
\* 1024 equals the literal 0.8 exactly when it is 4/5, and is otherwise at least
\* 1/5120 away from it, so the comparison is the integer one.
RatioBelow(printableCount, checkLength) == printableCount * 10 < 8 * checkLength

isBinaryBuffer(buf) ==
    IF BufLength(buf) = 0 THEN FALSE
    ELSE IF HasNull(buf, Min(BufLength(buf), NullScanLimit)) THEN TRUE
    ELSE LET checkLength == Min(BufLength(buf), PrintableScanLimit)
             printableCount == CountPrintable(buf, checkLength)
         IN RatioBelow(printableCount, checkLength)

\* the bytes readFile returns for a file of the run's filesystem
TextContent   == <<[byte |-> 32, n |-> 4]>>
BinaryContent == <<[byte |-> 32, n |-> 4], [byte |-> 0, n |-> 1]>>
ContentOf(p)  == IF FileState(p) = "binary" THEN BinaryContent ELSE TextContent

\* try { ... } catch { return false }
isBinaryFile(filePath) ==
    IF ReadFails(filePath) THEN FALSE ELSE isBinaryBuffer(ContentOf(filePath))

\* mutant: nothing is filtered
filterKeepAll(fs) == fs

filterTextFiles(fs) == SelectSeq(fs, LAMBDA file : ~isBinaryFile(file))

(***************************************************************************)
(* generateContext: the lines written for a list of files.                 *)
(***************************************************************************)
Relative(file)   == file            \* path.relative(cwd, file), file relative already
HeaderLine(file) == Relative(file) \o ":"
FenceLine        == "<fence>"   \* the line of three backquotes
ContentLine(file) == "<content of " \o file \o ">"
BlankLine        == ""

NoArg == ""

ReadError(file) == <<"Error reading", file>>

\* one iteration of the for loop
emitFile(file, fs, acc) ==
    IF ReadFails(file)
    THEN [out |-> acc.out, errs |-> Append(acc.errs, ReadError(file))]
    ELSE [out |-> acc.out
                  \o <<HeaderLine(file), FenceLine, ContentLine(file), FenceLine>>
                  \o (IF file # fs[Len(fs)] THEN <<BlankLine>> ELSE <<>>),
          errs |-> acc.errs]

\* mutant: the first read failure ends the loop
generateContextAbort(fs) ==
    LET G[k \in 0..Len(fs)] ==
            IF k = 0 THEN [out |-> <<>>, errs |-> <<>>, stop |-> FALSE]
            ELSE IF G[k-1].stop THEN G[k-1]
            ELSE IF ReadFails(fs[k])
                 THEN [out |-> G[k-1].out, errs |-> Append(G[k-1].errs, ReadError(fs[k])),
                       stop |-> TRUE]
                 ELSE LET r == emitFile(fs[k], fs, G[k-1])
                      IN [out |-> r.out, errs |-> r.errs, stop |-> FALSE]
    IN [out |-> G[Len(fs)].out, errs |-> G[Len(fs)].errs]

generateContext(fs) ==
    LET G[k \in 0..Len(fs)] ==
            IF k = 0 THEN [out |-> <<>>, errs |-> <<>>]
            ELSE emitFile(fs[k], fs, G[k-1])
    IN G[Len(fs)]

(***************************************************************************)
(* The run: program.action, in the stages of its handler.                  *)
(***************************************************************************)
BoundedSeq(S, n) == UNION {[1..k -> S] : k \in 0..n}

Init ==
    /\ fileState \in [VaryingFiles -> {"text", "binary", "unreadable"}]
    /\ badDirs \in SUBSET Dirs
    /\ globErr \in {"none", "[x].txt", "missing.txt"}
    /\ patterns \in BoundedSeq(Specifiers, MaxSpecs)
    /\ includeBinary \in BOOLEAN
    /\ pc = "start"
    /\ i = 1
    /\ files = <<>>
    /\ trace = <<>>
    /\ allFiles = <<>>
    /\ textFiles = <<>>
    /\ stdout = <<>>
    /\ stderr = <<>>
    /\ exitCode = 0
    /\ buffer = <<>>
    /\ verdict = "none"

\* if (paths.length === 0) { ...; process.exit(1) }
NoPaths ==
    /\ pc = "start"
    /\ Len(patterns) = 0
    /\ stderr' = Append(stderr, <<"Error: No paths specified", NoArg>>)
    /\ exitCode' = 1
    /\ pc' = "exited"
    /\ UNCHANGED <<fsVars, clsVars, i, files, trace, allFiles, textFiles, stdout>>

\* entering expandFiles(paths, true)
Begin ==
    /\ pc = "start"
    /\ Len(patterns) # 0
    /\ pc' = "expand"
    /\ UNCHANGED <<fsVars, clsVars, i, files, trace, allFiles, textFiles, stdout,
                   stderr, exitCode>>

\* one iteration of expandFiles' loop
ExpandPattern ==
    /\ pc = "expand"
    /\ i <= Len(patterns)
    /\ LET r == expandPattern(patterns[i], TRUE)
       IN /\ files' = files \o r.contrib
          /\ stderr' = stderr \o r.errs
          /\ trace' = Append(trace, r)
    /\ i' = i + 1
    /\ UNCHANGED <<fsVars, clsVars, pc, allFiles, textFiles, stdout, exitCode>>

\* expandFiles returns; if (allFiles.length === 0) { ...; process.exit(1) }
ExpandReturn ==
    /\ pc = "expand"
    /\ i > Len(patterns)
    /\ allFiles' = Dedup(files)
    /\ IF Len(allFiles') = 0
       THEN /\ stderr' = Append(stderr, <<"Error: No matching files found", NoArg>>)
            /\ exitCode' = 1
            /\ pc' = "exited"
       ELSE /\ pc' = "filter"
            /\ UNCHANGED <<stderr, exitCode>>
    /\ UNCHANGED <<fsVars, clsVars, i, files, trace, textFiles, stdout>>

\* the binary filter, its empty check and the skipped-count message
FilterFiles ==
    /\ pc = "filter"
    /\ LET shouldIncludeBinary == includeBinary = TRUE
       IN /\ textFiles' = IF shouldIncludeBinary THEN allFiles ELSE filterTextFiles(allFiles)
          /\ IF Len(textFiles') = 0
             THEN /\ stderr' = Append(stderr, <<"Error: No text files found", NoArg>>)
                  /\ exitCode' = 1
                  /\ pc' = "exited"
             ELSE /\ stderr' = IF ~shouldIncludeBinary /\ Len(textFiles') < Len(allFiles)
                               THEN Append(stderr, <<"Skipped binary file(s)",
                                                     ToString(Len(allFiles) - Len(textFiles'))>>)
                               ELSE stderr
                  /\ pc' = "emit"
                  /\ UNCHANGED exitCode
    /\ UNCHANGED <<fsVars, clsVars, i, files, trace, allFiles, stdout>>

\* await generateContext(textFiles); the handler returns
GenerateContext ==
    /\ pc = "emit"
    /\ LET r == generateContext(textFiles)
       IN /\ stdout' = stdout \o r.out
          /\ stderr' = stderr \o r.errs
    /\ pc' = "done"
    /\ UNCHANGED <<fsVars, clsVars, i, files, trace, allFiles, textFiles, exitCode>>

Next == NoPaths \/ Begin \/ ExpandPattern \/ ExpandReturn \/ FilterFiles \/ GenerateContext

Spec == Init /\ [][Next]_vars

(***************************************************************************)
(* The classifier alone, over every buffer of at most MaxRuns runs.        *)
(***************************************************************************)
InitClassify ==
    /\ buffer = <<>>
    /\ verdict = "none"
    /\ fileState = [p \in VaryingFiles |-> "text"]
    /\ badDirs = {}
    /\ globErr = "none"
    /\ patterns = <<>>
    /\ includeBinary = FALSE
    /\ pc = "classify"
    /\ i = 1
    /\ files = <<>>
    /\ trace = <<>>
    /\ allFiles = <<>>
    /\ textFiles = <<>>
    /\ stdout = <<>>
    /\ stderr = <<>>
    /\ exitCode = 0

\* readFile delivers the next bytes of the file
ReadRun ==
    /\ pc = "classify"
    /\ verdict = "none"
    /\ Len(buffer) < MaxRuns
    /\ \E r \in Runs : buffer' = Append(buffer, r)
    /\ UNCHANGED <<fsVars, verdict, pc, i, files, trace, allFiles, textFiles, stdout,
                   stderr, exitCode>>

\* the read is complete: the body of isBinaryFile
Classify ==
    /\ pc = "classify"
    /\ verdict = "none"
    /\ verdict' = IF isBinaryBuffer(buffer) THEN "binary" ELSE "text"
    /\ UNCHANGED <<fsVars, buffer, pc, i, files, trace, allFiles, textFiles, stdout,
                   stderr, exitCode>>

NextClassify == ReadRun \/ Classify

SpecClassify == InitClassify /\ [][NextClassify]_vars

(***************************************************************************)
(* Vocabulary of the properties, stated on the filesystem and the output   *)
(* rather than through the operators above.                                *)
(***************************************************************************)
Range(s) == {s[k] : k \in DOMAIN s}

NoDuplicates(s) == \A a, b \in DOMAIN s : a # b => s[a] # s[b]

\* expandFiles has returned
Resolved == patterns # <<>> /\ pc \in {"filter", "emit", "done", "exited"}

\* the binary filter has run
Filtered == allFiles # <<>> /\ pc \in {"emit", "done", "exited"}

Reported(msg) == \E k \in DOMAIN stderr : stderr[k] = msg

\* the entries of the readable directories of S
Children(S) ==
    UNION {{Join(x, Entries(x)[k]) : k \in DOMAIN Entries(x)} :
           x \in {y \in S : Kind(y) = "dir" /\ ~ReaddirFails(y)}}

RECURSIVE Closure(_)
\* everything a descent from S comes to, a failing directory being a dead end
Closure(S) == IF Children(S) \subseteq S THEN S ELSE Closure(S \cup Children(S))

ReachableFiles(d) == {p \in Closure({d}) : Kind(p) = "file"}

RECURSIVE Ancestors(_)
\* the directories above p, the working directory excluded
Ancestors(p) ==
    IF ParentOf(p) = "" THEN {} ELSE {ParentOf(p)} \cup Ancestors(ParentOf(p))

\* the directories on the way from d down to p, d included
Between(d, p) == {a \in Ancestors(p) : a = d \/ d \in Ancestors(a)}

\* byte offset of run r of a buffer
Offset(buf, r) == BufLength(SubSeq(buf, 1, r - 1))

\* some byte 0 at an index below lim
NullWithin(buf, lim) == \E r \in DOMAIN buf : buf[r].byte = 0 /\ Offset(buf, r) < lim

NullAnywhere(buf) == \E r \in DOMAIN buf : buf[r].byte = 0

PrintableBytes == (32..126) \cup {9, 10, 13}

\* how many indices below lim hold a printable byte
PrintableWithin(buf, lim) ==
    LET part(r) == IF buf[r].byte \in PrintableBytes
                   THEN Max(0, Min(Offset(buf, r) + buf[r].n, lim) - Offset(buf, r))
                   ELSE 0
        S[r \in 0..Len(buf)] == IF r = 0 THEN 0 ELSE S[r-1] + part(r)
    IN S[Len(buf)]

\* at least 80% of the first min(length, 1024) bytes are printable
MostlyPrintable(buf) == 5 * PrintableWithin(buf, 1024) >= 4 * Min(BufLength(buf), 1024)

IsHeaderLine(line) == \E f \in AllPaths : line = HeaderLine(f)

(***************************************************************************)
(* C1: the list expandFiles returns holds no path string twice, also when  *)
(* several specifiers lead to the same file.                               *)
(***************************************************************************)
C1_NoDuplicatePaths == Resolved => NoDuplicates(allFiles) /\ Range(allFiles) = Range(files)

C1_Witness ==
    /\ Resolved
    /\ Len(trace) = 2
    /\ trace[1].pattern = "sub"
    /\ trace[2].pattern = "**/*.txt"
    /\ ~NoDuplicates(files)
    /\ Len(allFiles) < Len(files)

(***************************************************************************)
(* C2: a specifier naming an existing directory contributes exactly the    *)
(* regular files a recursive descent from it comes to, each once under its *)
(* joined path, never a directory; neither glob nor the literal-path check *)
(* is applied to it.                                                       *)
(***************************************************************************)
C2_DirectoryYieldsReachableFiles ==
    \A k \in DOMAIN trace :
        Kind(trace[k].pattern) = "dir" =>
            /\ Range(trace[k].contrib) = ReachableFiles(trace[k].pattern)
            /\ NoDuplicates(trace[k].contrib)
            /\ \A f \in Range(trace[k].contrib) : Kind(f) = "file"
            /\ "glob" \notin Range(trace[k].calls)
            /\ "fileExists" \notin Range(trace[k].calls)

C2_Witness ==
    /\ badDirs = {}
    /\ \E k \in DOMAIN trace :
          /\ trace[k].pattern = "sub"
          /\ trace[k].contrib = <<"sub/b.txt", "sub/d/c.txt", "sub/e.txt">>

(***************************************************************************)
(* C3: for a specifier that is no existing directory, when glob returns no *)
(* match or raises, the specifier's own string is contributed exactly when *)
(* the existence check succeeds, nothing else is, and the loop goes on to  *)
(* the remaining specifiers.                                               *)
(***************************************************************************)
C3_LiteralFallback ==
    /\ Len(trace) = i - 1
    /\ \A k \in DOMAIN trace : trace[k].pattern = patterns[k]
    /\ Resolved => Len(trace) = Len(patterns)
    /\ \A k \in DOMAIN trace :
          LET p == trace[k].pattern
          IN (Kind(p) # "dir" /\ (GlobRaises(p) \/ Glob(p) = <<>>)) =>
                 trace[k].contrib = IF AccessOk(p) THEN <<p>> ELSE <<>>

C3_Witness ==
    /\ globErr = "missing.txt"
    /\ Len(trace) = 2
    /\ trace[1].pattern = "missing.txt"
    /\ trace[1].contrib = <<>>
    /\ trace[2].pattern = "[x].txt"
    /\ trace[2].contrib = <<"[x].txt">>

(***************************************************************************)
(* C4: a directory whose read fails during a traversal is reported and     *)
(* contributes nothing, and the traversal goes on: every regular file with *)
(* only readable directories between the specifier and itself is returned. *)
(***************************************************************************)
C4_UnreadableDirectoryTolerated ==
    \A k \in DOMAIN trace :
        LET d == trace[k].pattern
        IN Kind(d) = "dir" =>
            /\ \A u \in Closure({d}) :
                  (Kind(u) = "dir" /\ ReaddirFails(u)) =>
                      /\ Reported(DirError(u))
                      /\ \A f \in Range(trace[k].contrib) : u \notin Ancestors(f)
            /\ \A f \in AllPaths :
                  (/\ Kind(f) = "file"
                   /\ d \in Ancestors(f)
                   /\ \A a \in Between(d, f) : ~ReaddirFails(a))
                  => f \in Range(trace[k].contrib)

C4_Witness ==
    /\ badDirs = {"sub/d"}
    /\ Reported(DirError("sub/d"))
    /\ \E k \in DOMAIN trace :
          /\ trace[k].pattern = "sub"
          /\ trace[k].contrib = <<"sub/b.txt", "sub/e.txt">>

(***************************************************************************)
(* C5: a buffer with a byte 0 among its first 8192 bytes is binary         *)
(* whatever its printable ratio; a byte 0 only further on leaves the       *)
(* verdict to the printable ratio.                                         *)
(***************************************************************************)
C5_NullByteWindow ==
    verdict # "none" =>
        /\ NullWithin(buffer, 8192) => verdict = "binary"
        /\ (NullAnywhere(buffer) /\ ~NullWithin(buffer, 8192)) =>
               (verdict = "binary" <=> ~MostlyPrintable(buffer))

C5_Witness ==
    /\ verdict = "binary"
    /\ buffer = <<[byte |-> 32, n |-> 1024], [byte |-> 126, n |-> 7167],
                  [byte |-> 0, n |-> 1]>>

(***************************************************************************)
(* C6, as claimed: a buffer is text exactly when its first 1024 bytes are  *)
(* at least 80% printable and hold no byte 0.                              *)
(***************************************************************************)
C6_AsClaimed ==
    verdict # "none" =>
        (verdict = "text" <=> (MostlyPrintable(buffer) /\ ~NullWithin(buffer, 1024)))

(***************************************************************************)
(* C6, amended: a buffer is text exactly when its first 1024 bytes are at  *)
(* least 80% printable (a ratio of exactly 0.8 included) and its first     *)
(* 8192 bytes hold no byte 0; otherwise it is binary.                      *)
(***************************************************************************)
C6_PrintableRatio ==
    verdict # "none" =>
        /\ verdict \in {"text", "binary"}
        /\ verdict = "text" <=> (MostlyPrintable(buffer) /\ ~NullWithin(buffer, 8192))

C6_Witness ==
    /\ verdict = "text"
    /\ buffer = <<[byte |-> 32, n |-> 4], [byte |-> 31, n |-> 1]>>

(***************************************************************************)
(* C7: a run with no usable file ends in a top-level failure and writes no *)
(* file block: "No matching files found" when resolution is empty, "No     *)
(* text files found" when the filter is active and every candidate is      *)
(* binary; both with exit status 1, the second never with includeBinary.   *)
(***************************************************************************)
C7_AggregateEmptyFails ==
    /\ (Resolved /\ allFiles = <<>>) =>
           /\ pc = "exited"
           /\ exitCode = 1
           /\ stderr[Len(stderr)] = <<"Error: No matching files found", NoArg>>
           /\ stdout = <<>>
    /\ (/\ Filtered
        /\ ~includeBinary
        /\ \A f \in Range(allFiles) : Kind(f) = "file" /\ FileState(f) = "binary") =>
           /\ pc = "exited"
           /\ exitCode = 1
           /\ stderr[Len(stderr)] = <<"Error: No text files found", NoArg>>
           /\ stdout = <<>>
    /\ includeBinary => ~Reported(<<"Error: No text files found", NoArg>>)

C7_Witness ==
    /\ pc = "exited"
    /\ exitCode = 1
    /\ ~includeBinary
    /\ patterns = <<"a.txt", "sub/b.txt">>
    /\ allFiles = <<"a.txt", "sub/b.txt">>
    /\ Reported(<<"Error: No text files found", NoArg>>)

(***************************************************************************)
(* C8: when the emitter has finished, also after read failures, a blank    *)
(* line stands only between two emitted blocks: it is never the last line  *)
(* written and is always followed by the header of the next block.  Stated *)
(* for the runs whose final list holds regular files only.                 *)
(***************************************************************************)
C8_BlankOnlyBetweenBlocks ==
    (pc = "done" /\ \A f \in Range(textFiles) : Kind(f) = "file") =>
        \A k \in DOMAIN stdout :
            stdout[k] = BlankLine =>
                /\ k > 1 /\ stdout[k-1] = FenceLine
                /\ k < Len(stdout) /\ IsHeaderLine(stdout[k+1])

(***************************************************************************)
(* C9: a read failure at emission is reported for that file alone: the     *)
(* files of the final list that can be read are each emitted once, in the  *)
(* order of the list, and the exit status stays 0.                         *)
(***************************************************************************)
C9_ReadFailureIsLocal ==
    pc = "done" =>
        LET good == SelectSeq(textFiles, LAMBDA f : ~ReadFails(f))
            bad  == SelectSeq(textFiles, LAMBDA f : ReadFails(f))
        IN /\ SelectSeq(stdout, IsHeaderLine) = [k \in DOMAIN good |-> HeaderLine(good[k])]
           /\ SelectSeq(stdout, LAMBDA l : \E f \in AllPaths : l = ContentLine(f))
                  = [k \in DOMAIN good |-> ContentLine(good[k])]
           /\ SelectSeq(stderr, LAMBDA m : m[1] = "Error reading")
                  = [k \in DOMAIN bad |-> ReadError(bad[k])]
           /\ exitCode = 0

C9_Witness ==
    /\ pc = "done"
    /\ exitCode = 0
    /\ textFiles = <<"a.txt", "sub/b.txt", "sub/d/c.txt", "sub/e.txt">>
    /\ fileState["a.txt"] = "unreadable"
    /\ fileState["sub/b.txt"] = "text"
    /\ Reported(ReadError("a.txt"))
    /\ stdout[1] = HeaderLine("sub/b.txt")

(***************************************************************************)
(* C10: every path of the list expandFiles returns is an existing regular  *)
(* file, never a directory, whichever branch produced it.                  *)
(***************************************************************************)
C10_OnlyExistingFiles == Resolved => \A f \in Range(allFiles) : Kind(f) = "file"

====
